---- MODULE Spec2Model ----
(***************************************************************************)
(* The zombiotrack simulation engine (ZombieEnvironment) as a state        *)
(* machine: the engine's retained state self.state, the operations step,   *)
(* clean_room, reset_sensor, block_room, unblock_room and reset_simulation, *)
(* and the propagation algorithm they run.                                 *)
(*                                                                         *)
(* A Python dict is a function (DOMAIN = its keys); the infection map,     *)
(* whose iteration order the propagation depends on, is the sequence of    *)
(* its items in insertion order.  deepcopy keeps the value and makes a new *)
(* object: caller.shared names the caller's objects that are the object    *)
(* self.state is bound to, which a change made through either side hits.  A *)
(* raised exception ends the operation: the action records its type in     *)
(* call.outcome and returns nothing.  The iteration order of the set       *)
(* possible_adjacent_rooms is the hash table's; each step takes one of two *)
(* orders (SetOrders) for all its seeds.  Asserts are enabled.             *)
(***************************************************************************)
EXTENDS Integers, Sequences, FiniteSets, TLC

VARIABLES
    state,                  \* self.state, the engine's retained state
    stochastic,             \* self.stochastic
    pre,                    \* self.state when the last operation was called
                            \* (after __init__: the initial_state argument)
    ret,                    \* <<s>> when the last operation returned s, <<>> when it raised
    call,                   \* the last operation: its name, arguments and outcome
    room_infection_actions, \* per seed of the last step, the list _spread_infection_room returned
    caller                  \* the state objects the caller holds: initial_state, the argument
                            \* of the constructor, and returned, the last state an operation
                            \* returned; shared, those of the two that are the object self.state

vars == <<state, stochastic, pre, ret, call, room_infection_actions, caller>>

----------------------------------------------------------------------------
(* Bounds of the model. *)

\* Spec, the whole engine: its initial state is drawn from
MaxFloors == 2      \* floors_count in 1..MaxFloors
MaxRooms == 2       \* rooms_per_floor in 1..MaxRooms
MaxSeeds == 1       \* an infection map of at most MaxSeeds entries
MaxCount == 2       \* each zombie_count in 0..MaxCount (or the key is missing)
MaxBlocked == 1     \* at most MaxBlocked blocked rooms
MaxTurn == 2        \* step() is called while turn < MaxTurn
MaxStochTurn == 1   \* as MaxTurn, for an engine in stochastic mode

\* SpreadSpec, the engine under step() alone, on larger inputs:
SpreadFloors == 2       \* floors_count in 1..SpreadFloors
SpreadRooms == 3        \* rooms_per_floor in 1..SpreadRooms
SpreadSeeds == 2        \* at most SpreadSeeds entries in deterministic mode
SpreadStochSeeds == 1   \* at most SpreadStochSeeds entries in stochastic mode

\* FloodSpec, a deterministic engine under step() alone until the turn bound:
FloodFloors == 2        \* floors_count in 1..FloodFloors
FloodRooms == 3         \* rooms_per_floor in 1..FloodRooms
FloodSeeds == 2         \* at most FloodSeeds entries
\* step() is called while turn < FloodTurns: two more turns than the largest
\* distance between two rooms of the largest building
FloodTurns == FloodFloors + FloodRooms

\* AliasSpec, the engine and a caller that changes the states it holds:
AliasFloors == 1        \* floors_count in 1..AliasFloors
AliasRooms == 2         \* rooms_per_floor in 1..AliasRooms
AliasSeeds == 1         \* at most AliasSeeds entries, in either mode

\* BuildingSpec, a Building on its own, built and resized within:
BuildFloors == 2        \* floors_count and new_floors_count in 0..BuildFloors
BuildRooms == 3         \* rooms_per_floor and new_rooms_per_floor in 0..BuildRooms

----------------------------------------------------------------------------
(* use_cases/constants.py *)

DO_NOTHING == 0
ZOMBIE_COUNT == "zombie_count"
ZOMBIE_COUNT_DELTA == "zombie_count_delta"
\* The outcomes of random() < INFECTION_PROBABILITY, a probability strictly between 0 and 1.
INFECTION_PROBABILITY == {TRUE, FALSE}

----------------------------------------------------------------------------
(* Python helpers *)

EmptyDict == <<>>

\* dict.get(key, default)
Get(d, key, default) == IF key \in DOMAIN d THEN d[key] ELSE default

\* len(dict)
len(d) == Cardinality(DOMAIN d)

Min(a, b) == IF a < b THEN a ELSE b
Max(a, b) == IF a > b THEN a ELSE b
Abs(a) == IF a < 0 THEN -a ELSE a

RECURSIVE SumSeq(_)
SumSeq(s) == IF s = <<>> THEN 0 ELSE Head(s) + SumSeq(Tail(s))

\* The keys of an infection map, and the attributes stored under a key.
Keys(infected_coords) == {infected_coords[i].room : i \in DOMAIN infected_coords}
Index(infected_coords, room) == CHOOSE i \in DOMAIN infected_coords : infected_coords[i].room = room
Attrs(infected_coords, room) == infected_coords[Index(infected_coords, room)].attrs

----------------------------------------------------------------------------
(* models/sensor.py, models/room.py, models/floor.py, models/building.py *)

INITIAL_STATE == "normal"

Sensor == [status |-> INITIAL_STATE]

Sensor_reset(sensor) == [sensor EXCEPT !.status = INITIAL_STATE]

\* Mutant: triggering a sensor that is in alert puts it back to normal.
Sensor_trigger_toggling(sensor) ==
    [sensor EXCEPT !.status = IF @ = "alert" THEN INITIAL_STATE ELSE "alert"]

Sensor_trigger(sensor) == [sensor EXCEPT !.status = "alert"]

Room(room_number) == [room_number |-> room_number, blocked |-> FALSE, sensor |-> Sensor]

\* Mutant: every floor gets one room too many.
from_2d_floor_spec_extra_room(floors_count, rooms_per_floor) ==
    [floors_count |-> floors_count,
     rooms_per_floor |-> rooms_per_floor,
     floors |-> [floor_number \in 0..(floors_count - 1) |->
                    [floor_number |-> floor_number,
                     rooms |-> [room_number \in 0..rooms_per_floor |-> Room(room_number)]]]]

from_2d_floor_spec(floors_count, rooms_per_floor) ==
    [floors_count |-> floors_count,
     rooms_per_floor |-> rooms_per_floor,
     floors |-> [floor_number \in 0..(floors_count - 1) |->
                    [floor_number |-> floor_number,
                     rooms |-> [room_number \in 0..(rooms_per_floor - 1) |-> Room(room_number)]]]]

\* The validation of Building(floors_count=..., rooms_per_floor=..., floors=...):
\* Field(gt=0) on both counts and validate_floors.  TRUE when the building is
\* constructed, FALSE when the constructor raises ValidationError.
Building_validates(building) ==
    /\ building.floors_count > 0
    /\ building.rooms_per_floor > 0
    /\ ~(len(building.floors) > building.floors_count)

\* Floor(floor_number=floor_number): no rooms yet
Floor(floor_number) == [floor_number |-> floor_number, rooms |-> EmptyDict]

\* range(start, stop)
range(start, stop) == start..(stop - 1)

\* {k: v for k, v in d.items() if k < bound}
ItemsBelow(d, bound) == [k \in {x \in DOMAIN d : x < bound} |-> d[k]]

\* d after d[k] = new[k] for every key k of new
Assigned(d, new) == [k \in DOMAIN d \cup DOMAIN new |-> IF k \in DOMAIN new THEN new[k] ELSE d[k]]

\* Mutant: a floor that gains rooms has all its rooms created anew.
added_rooms_from_zero(self, new_rooms_per_floor) == range(0, new_rooms_per_floor)

\* range(self.rooms_per_floor, new_rooms_per_floor): the rooms added to a floor
added_rooms(self, new_rooms_per_floor) == range(self.rooms_per_floor, new_rooms_per_floor)

\* The Building self after self.update_building_size(new_floors_count, new_rooms_per_floor).
update_building_size(self, new_floors_count, new_rooms_per_floor) ==
    LET new_floor(floor_number) ==
            [Floor(floor_number) EXCEPT !.rooms =
                [room_number \in range(0, new_rooms_per_floor) |-> Room(room_number)]]
        floors1 ==
            IF new_floors_count < self.floors_count
            THEN ItemsBelow(self.floors, new_floors_count)
            ELSE IF new_floors_count > self.floors_count
            THEN Assigned(self.floors,
                          [floor_number \in range(self.floors_count, new_floors_count) |->
                              new_floor(floor_number)])
            ELSE self.floors
        rooms2(floor) ==
            IF new_rooms_per_floor < self.rooms_per_floor
            THEN ItemsBelow(floor.rooms, new_rooms_per_floor)
            ELSE IF new_rooms_per_floor > self.rooms_per_floor
            THEN Assigned(floor.rooms,
                          [room_number \in added_rooms(self, new_rooms_per_floor) |->
                              Room(room_number)])
            ELSE floor.rooms
        floors2 ==
            IF new_rooms_per_floor # self.rooms_per_floor
            THEN [k \in DOMAIN floors1 |-> [floors1[k] EXCEPT !.rooms = rooms2(floors1[k])]]
            ELSE floors1
    IN [floors_count |-> new_floors_count,
        rooms_per_floor |-> new_rooms_per_floor,
        floors |-> floors2]

\* ZombieSimulationState(building=..., infected_coords=...), the other fields at their defaults
ZombieSimulationState(building, infected_coords) ==
    [turn |-> 0,
     building |-> building,
     infected_coords |-> infected_coords,
     last_action |-> "START",
     last_action_payload |-> EmptyDict,
     infection_events_log |-> <<>>]

----------------------------------------------------------------------------
(* ZombieEnvironment: the checks *)

\* Mutant: the blocked flag is never seen.
_room_is_blocked_never(s, floor, room) == FALSE

_room_is_blocked(s, floor, room) == s.building.floors[floor].rooms[room].blocked

\* Mutant: only the floor number is checked.
_assert_bounds_floor_only(s, floor, room) ==
    ~(floor < 0 \/ floor >= len(s.building.floors))

\* TRUE when _assert_bounds returns, FALSE when it raises ValueError
_assert_bounds(s, floor, room) ==
    /\ ~(floor < 0 \/ floor >= len(s.building.floors))
    /\ ~(room < 0 \/ room >= len(s.building.floors[floor].rooms))

_check_room_exists(s, floor, room) ==
    IF floor \notin DOMAIN s.building.floors
    THEN FALSE
    ELSE room \in DOMAIN s.building.floors[floor].rooms

_check_bounds(s, floor, room) ==
    /\ 0 <= floor /\ floor < len(s.building.floors)
    /\ 0 <= room /\ room < len(s.building.floors[floor].rooms)

_check_infected(s, floor, room) ==
    IF Get(Attrs(s.infected_coords, <<floor, room>>), ZOMBIE_COUNT, 0) = 0 THEN FALSE ELSE TRUE

----------------------------------------------------------------------------
(* ZombieEnvironment: propagation *)

\* An InfectionState with one key, {(floor, room): {ZOMBIE_COUNT_DELTA: quantity}}.
InfectionAction(floor, room, quantity) ==
    [room |-> <<floor, room>>, zombie_count_delta |-> quantity]

\* The asserts of _infect_room; its result is InfectionAction(floor, room, quantity).
_infect_room(s, floor, room) ==
    /\ _check_bounds(s, floor, room)
    /\ _check_room_exists(s, floor, room)
    /\ ~_room_is_blocked(s, floor, room)

\* Mutant: the asserts are compiled away, an invalid seed spreads like any other.
_spread_infection_room_asserts_off(s, floor, room) == TRUE

\* The asserts at the head of _spread_infection_room.
_spread_infection_room_asserts(s, floor, room) ==
    /\ _check_bounds(s, floor, room)
    /\ _check_room_exists(s, floor, room)
    /\ ~_room_is_blocked(s, floor, room)

\* Mutant: the diagonal offsets are kept too.
IsStep_with_diagonals(i, j) == Abs(i) + Abs(j) >= 1

\* abs(i) + abs(j) != 1: continue
IsStep(i, j) == Abs(i) + Abs(j) = 1

\* The condition under which (floor + i, room + j) is added to possible_adjacent_rooms.
IsPossibleAdjacent(s, floor, room) ==
    /\ _check_bounds(s, floor, room)
    /\ ~_room_is_blocked(s, floor, room)
    /\ _check_room_exists(s, floor, room)

possible_adjacent_rooms(s, floor, room) ==
    {<<floor + i, room + j>> : <<i, j>> \in
        {d \in (-1..1) \X (-1..1) : IsStep(d[1], d[2]) /\ IsPossibleAdjacent(s, floor + d[1], room + d[2])}}

\* The order in which a set of coordinates is iterated is the hash table's:
\* a step iterates its sets in ascending or in descending lexicographic order.
SetOrders == {"ascending", "descending"}

Before(a, b) == a[1] < b[1] \/ (a[1] = b[1] /\ a[2] < b[2])

RECURSIVE SetIter(_, _)
SetIter(S, order) ==
    IF S = {} THEN <<>>
    ELSE LET first == CHOOSE x \in S : \A y \in S \ {x} :
                          IF order = "ascending" THEN Before(x, y) ELSE Before(y, x)
         IN <<first>> \o SetIter(S \ {first}, order)

\* infection_place_state.get(ZOMBIE_COUNT, 1)
infection_power(s, floor, room) ==
    LET infection_place_state ==
            IF <<floor, room>> \in Keys(s.infected_coords)
            THEN Attrs(s.infected_coords, <<floor, room>>) ELSE EmptyDict
    IN Get(infection_place_state, ZOMBIE_COUNT, 1)

\* Mutant: the split is rounded up.
deterministic_strength_ceil(power, n_adjacent) ==
    Max((power + Max(n_adjacent, 1) - 1) \div Max(n_adjacent, 1), 1)

\* Mutant: the floor of 1 per neighbour is lost.
deterministic_strength_no_minimum(power, n_adjacent) == power \div Max(n_adjacent, 1)

\* The strength a neighbour receives in deterministic mode.
deterministic_strength(power, n_adjacent) == Max(power \div Max(n_adjacent, 1), 1)

\* A draw gives every possible adjacent room the strength it receives, or NoSpread
\* when random() >= INFECTION_PROBABILITY skips it.
NoSpread == -1

\* Mutant: randint(0, infection_power + 1)
stochastic_strengths_above_power(power) ==
    {IF hit THEN q ELSE NoSpread : hit \in INFECTION_PROBABILITY, q \in 0..(power + 1)}

stochastic_strengths(power) ==
    {IF hit THEN q ELSE NoSpread : hit \in INFECTION_PROBABILITY, q \in 0..power}

Draws(s, floor, room, is_stochastic) ==
    LET adjacent == possible_adjacent_rooms(s, floor, room)
        power == infection_power(s, floor, room)
    IN IF is_stochastic
       THEN [adjacent -> stochastic_strengths(power)]
       ELSE {[a \in adjacent |-> deterministic_strength(power, Cardinality(adjacent))]}

\* Mutant: the infected room loses all it handed out.
own_delta_all_given(power, infection_status) == 0 - infection_status

\* Mutant: the infected room never loses what it handed out beyond its power.
own_delta_zero(power, infection_status) == 0

\* min(0, infection_power - infection_status)
own_delta(power, infection_status) == Min(0, power - infection_status)

RECURSIVE AdjacentActions(_, _)
AdjacentActions(adjacent_seq, draw) ==
    IF adjacent_seq = <<>> THEN <<>>
    ELSE LET a == Head(adjacent_seq)
         IN (IF draw[a] = NoSpread THEN <<>> ELSE <<InfectionAction(a[1], a[2], draw[a])>>)
            \o AdjacentActions(Tail(adjacent_seq), draw)

\* Mutant: no delta is recorded on the infected room itself.
_spread_infection_room_without_own_delta(s, floor, room, order, draw) ==
    AdjacentActions(SetIter(possible_adjacent_rooms(s, floor, room), order), draw)

\* The list _spread_infection_room returns for an infected room that passes its asserts.
_spread_infection_room(s, floor, room, order, draw) ==
    LET adjacent_seq == SetIter(possible_adjacent_rooms(s, floor, room), order)
        given == AdjacentActions(adjacent_seq, draw)
        infection_status == SumSeq([k \in DOMAIN given |-> given[k].zombie_count_delta])
    IN given \o <<InfectionAction(floor, room,
                      own_delta(infection_power(s, floor, room), infection_status))>>

\* The (floor, room) of state.infected_coords, in order, with _check_infected true.
RECURSIVE Seeds(_, _)
Seeds(s, k) ==
    IF k > Len(s.infected_coords) THEN <<>>
    ELSE LET c == s.infected_coords[k].room
         IN (IF _check_infected(s, c[1], c[2]) THEN <<c>> ELSE <<>>) \o Seeds(s, k + 1)

\* Mutant: a delta of 0 triggers the sensor too.
Triggers_non_negative(value) == value >= 0

\* if value > 0: sensor.trigger()
Triggers(value) == value > 0

\* Mutant: the count is not clamped at 0.
new_count_unclamped(count, value) == count + value

\* max(0, count + value)
new_count(count, value) == Max(0, count + value)

_apply_infection_action(s, infection_action) ==
    LET room == infection_action.room
        value == infection_action.zombie_count_delta
        coords1 == IF room \notin Keys(s.infected_coords)
                   THEN Append(s.infected_coords, [room |-> room, attrs |-> EmptyDict])
                   ELSE s.infected_coords
        k == Index(coords1, room)
        building1 == IF Triggers(value)
                     THEN [s.building EXCEPT !.floors[room[1]].rooms[room[2]].sensor = Sensor_trigger(@)]
                     ELSE s.building
        count == Get(coords1[k].attrs, ZOMBIE_COUNT, 0)
        coords2 == [coords1 EXCEPT ![k].attrs = [zombie_count |-> new_count(count, value)]]
    IN [s EXCEPT !.building = building1, !.infected_coords = coords2]

RECURSIVE ApplyAll(_, _)
ApplyAll(s, infection_actions) ==
    IF infection_actions = <<>> THEN s
    ELSE ApplyAll(_apply_infection_action(s, Head(infection_actions)), Tail(infection_actions))

\* Mutant: the deltas of a seed are applied before the next seed spreads, so a
\* later seed spreads with the count the earlier seeds left it.
RECURSIVE SpreadResults_observing(_, _, _, _)
SpreadResults_observing(s, seeds, order, is_stochastic) ==
    IF seeds = <<>> THEN {<<>>}
    ELSE LET c == Head(seeds)
         IN UNION {{<<[seed |-> c, actions |-> _spread_infection_room(s, c[1], c[2], order, d)]>> \o rest :
                        rest \in SpreadResults_observing(
                                     ApplyAll(s, _spread_infection_room(s, c[1], c[2], order, d)),
                                     Tail(seeds), order, is_stochastic)} :
                   d \in Draws(s, c[1], c[2], is_stochastic)}

\* Every list of per-seed results the loop of _spread_infection can build.
RECURSIVE SpreadResults(_, _, _, _)
SpreadResults(s, seeds, order, is_stochastic) ==
    IF seeds = <<>> THEN {<<>>}
    ELSE LET c == Head(seeds)
         IN {<<[seed |-> c, actions |-> _spread_infection_room(s, c[1], c[2], order, d)]>> \o rest :
                d \in Draws(s, c[1], c[2], is_stochastic),
                rest \in SpreadResults(s, Tail(seeds), order, is_stochastic)}

\* infection_actions.extend(room_infection_actions), over the seeds
RECURSIVE Extend(_)
Extend(results) ==
    IF results = <<>> THEN <<>> ELSE Head(results).actions \o Extend(Tail(results))

\* state.last_action = action; state.last_action_payload = payload (self.state = deepcopy(state))
_apply_update(s, action, payload) ==
    [s EXCEPT !.last_action = action, !.last_action_payload = payload]

\* Mutant: the deltas of the step are put in front of the earlier entries.
extended_log_newest_first(infection_events_log, infection_actions) ==
    infection_actions \o infection_events_log

\* Mutant: only the deltas that add zombies are logged.
extended_log_infections_only(infection_events_log, infection_actions) ==
    infection_events_log \o SelectSeq(infection_actions, LAMBDA a : a.zombie_count_delta > 0)

\* Mutant: the log holds the deltas of the last step only.
extended_log_last_step_only(infection_events_log, infection_actions) == infection_actions

\* new_state.infection_events_log += infection_actions
extended_log(infection_events_log, infection_actions) ==
    infection_events_log \o infection_actions

\* Mutant: the entries left without zombies are dropped from the infection map.
_spread_infection_pruning(s, results) ==
    LET infection_actions == Extend(results)
        applied == ApplyAll(s, infection_actions)
        pruned == [applied EXCEPT !.infected_coords =
                      SelectSeq(@, LAMBDA item : Get(item.attrs, ZOMBIE_COUNT, 0) > 0)]
        logged == [pruned EXCEPT !.infection_events_log = extended_log(@, infection_actions)]
    IN _apply_update(logged, "spread_infection", [stochastic |-> stochastic])

\* The state _spread_infection returns for the per-seed results it collected.
_spread_infection(s, results) ==
    LET infection_actions == Extend(results)
        applied == ApplyAll(s, infection_actions)
        logged == [applied EXCEPT !.infection_events_log = extended_log(@, infection_actions)]
    IN _apply_update(logged, "spread_infection", [stochastic |-> stochastic])

\* TRUE when every seed passes the asserts of _spread_infection_room (and every
\* neighbour those of _infect_room); otherwise the step raises AssertionError.
SpreadAssertsHold(s) ==
    \A k \in DOMAIN Seeds(s, 1) :
        LET c == Seeds(s, 1)[k]
        IN /\ _spread_infection_room_asserts(s, c[1], c[2])
           /\ \A a \in possible_adjacent_rooms(s, c[1], c[2]) : _infect_room(s, a[1], a[2])

----------------------------------------------------------------------------
(* The inputs of the model *)

\* The coordinates of the largest building of max_floors x max_rooms.
Coordinates(max_floors, max_rooms) == (0..(max_floors - 1)) \X (0..(max_rooms - 1))

\* The attribute dicts of an initial infection-map entry.
InitialAttrs == {EmptyDict} \cup {[zombie_count |-> n] : n \in 0..MaxCount}

\* The infection maps of at most n entries over coords (distinct keys, any insertion order).
RECURSIVE InfectionMaps(_, _)
InfectionMaps(n, coords) ==
    IF n = 0 THEN {<<>>}
    ELSE LET shorter == InfectionMaps(n - 1, coords)
         IN shorter \cup
            {Append(m, [room |-> c, attrs |-> a]) :
                m \in {x \in shorter : Len(x) = n - 1},
                c \in coords, a \in InitialAttrs}

WellKeyed(m) == \A i, j \in DOMAIN m : m[i].room = m[j].room => i = j

\* room.blocked = True for the rooms of blocked_rooms
WithBlocked(building, blocked_rooms) ==
    [building EXCEPT !.floors =
        [f \in DOMAIN @ |-> [@[f] EXCEPT !.rooms =
            [r \in DOMAIN @ |-> [@[r] EXCEPT !.blocked = (<<f, r>> \in blocked_rooms)]]]]]

RoomsOf(building) ==
    UNION {{<<f, r>> : r \in DOMAIN building.floors[f].rooms} : f \in DOMAIN building.floors}

\* The codes step() is called with: the registered one and an unregistered one.
ActionCodes == {DO_NOTHING, DO_NOTHING + 1}

\* The (floor, room) arguments of the room commands: in and out of bounds.
ArgCoordinates ==
    Coordinates(MaxFloors, MaxRooms) \cup {<<-1, 0>>, <<0, -1>>, <<MaxFloors, 0>>, <<0, MaxRooms>>}

----------------------------------------------------------------------------
(* ZombieEnvironment: construction *)

step_action_lookup == [a \in {DO_NOTHING} |-> "do_nothing"]

\* The names under which the caller holds an object.
CallerReferences == {"initial_state", "returned"}

\* Mutant: no copy is made; the result is the object itself, under its names.
deepcopy_same_object(names) == names

\* copy.deepcopy(obj), for an object the caller holds under names: a new object,
\* equal in value, that the caller holds under no name.
deepcopy(names) == {}

\* self.state = deepcopy(initial_state)
__init__(initial_state) == initial_state

\* The engine as constructed from an initial state within the given bounds.
Constructed(max_floors, max_rooms, max_seeds, max_stoch_seeds) ==
    \E floors_count \in 1..max_floors, rooms_per_floor \in 1..max_rooms, is_stochastic \in BOOLEAN :
      \E infected \in InfectionMaps(IF is_stochastic THEN max_stoch_seeds ELSE max_seeds,
                                    Coordinates(max_floors, max_rooms)) :
        \E blocked_rooms \in SUBSET RoomsOf(from_2d_floor_spec(floors_count, rooms_per_floor)) :
          /\ WellKeyed(infected)
          /\ Cardinality(blocked_rooms) <= MaxBlocked
          /\ pre = ZombieSimulationState(
                      WithBlocked(from_2d_floor_spec(floors_count, rooms_per_floor), blocked_rooms),
                      infected)
          /\ state = __init__(pre)
          /\ stochastic = is_stochastic
          /\ ret = <<>>
          /\ call = [op |-> "__init__", args |-> <<>>, outcome |-> "ok"]
          /\ room_infection_actions = <<>>
          /\ caller = [initial_state |-> pre, returned |-> <<>>,
                       shared |-> deepcopy({"initial_state"})]

Init == Constructed(MaxFloors, MaxRooms, MaxSeeds, MaxSeeds)

AliasInit == Constructed(AliasFloors, AliasRooms, AliasSeeds, AliasSeeds)

SpreadInit == Constructed(SpreadFloors, SpreadRooms, SpreadSeeds, SpreadStochSeeds)

----------------------------------------------------------------------------
(* ZombieEnvironment: the operations *)

\* The caller's objects once the object of self.state has the value left:
\* those that are that object have it too.
SeenByCaller(left) ==
    [caller EXCEPT !.initial_state = IF "initial_state" \in caller.shared THEN left ELSE @,
                   !.returned = IF "returned" \in caller.shared THEN <<left>> ELSE @]

\* The operation raised: nothing is returned, self.state is what the operation left.
Raise(op, args, exception, left) ==
    /\ state' = left
    /\ pre' = state
    /\ ret' = <<>>
    /\ call' = [op |-> op, args |-> args, outcome |-> exception]
    /\ room_infection_actions' = <<>>
    /\ caller' = SeenByCaller(left)
    /\ UNCHANGED stochastic

\* Mutant: the state is returned without being stored in self.state.
Return_not_stored(op, args, new_state, results) ==
    /\ state' = state
    /\ pre' = state
    /\ ret' = <<new_state>>
    /\ call' = [op |-> op, args |-> args, outcome |-> "ok"]
    /\ room_infection_actions' = results
    /\ caller' = [caller EXCEPT !.returned = <<new_state>>]
    /\ UNCHANGED stochastic

\* The operation returned new_state, having stored it in self.state: it worked
\* on new_state = deepcopy(self.state), and _apply_update bound self.state to
\* deepcopy(state) before it returned state.
Return(op, args, new_state, results) ==
    /\ state' = new_state
    /\ pre' = state
    /\ ret' = <<new_state>>
    /\ call' = [op |-> op, args |-> args, outcome |-> "ok"]
    /\ room_infection_actions' = results
    /\ caller' = [caller EXCEPT !.returned = <<new_state>>,
                                !.shared = deepcopy(deepcopy(caller.shared) \cup {"returned"})]
    /\ UNCHANGED stochastic

\* Mutant: the turn advances by two.
next_turn_twice(turn) == turn + 2

\* new_state.turn += 1
next_turn(turn) == turn + 1

\* Mutant: no code is seen as unregistered, the step goes on as for code 0.
IsUnregistered_never(action) == FALSE

\* action != 0 and action not in self.step_action_lookup
IsUnregistered(action) == action # 0 /\ action \notin DOMAIN step_action_lookup

\* The attributes getattr(self, name) finds on a ZombieEnvironment.
Attributes ==
    {"state", "step_action_lookup", "stochastic", "_apply_update", "step", "_room_is_blocked",
     "_assert_bounds", "_check_room_exists", "_check_bounds", "_check_infected",
     "_spread_infection", "_apply_infection_action", "_spread_infection_room", "_infect_room",
     "clean_room", "reset_sensor", "block_room", "unblock_room", "reset_simulation"}

\* def _apply_update(self, state, old_state, action, payload): four required
\* parameters; a call that passes another number of arguments raises TypeError.
_apply_update_parameters == 4

\* dict.popitem() takes no argument; a call that passes one raises TypeError.
popitem_parameters == 0

\* infected_coords without the item of key room
Pop(infected_coords, room) ==
    SelectSeq(infected_coords, LAMBDA item : item.room # room)

step(action) ==
    LET new_state == [state EXCEPT !.turn = next_turn(@)]
    IN IF IsUnregistered(action)
          /\ Get(step_action_lookup, action, "do_nothing") \notin Attributes
       THEN Raise("step", <<action>>, "AttributeError", state)
       ELSE IF ~SpreadAssertsHold(new_state)
       THEN Raise("step", <<action>>, "AssertionError", state)
       ELSE \E order \in SetOrders :
              \E results \in SpreadResults(new_state, Seeds(new_state, 1), order, stochastic) :
                 \* _spread_infection passes state, old_state, action and payload
                 IF 4 # _apply_update_parameters
                 THEN Raise("step", <<action>>, "TypeError", state)
                 ELSE Return("step", <<action>>, _spread_infection(new_state, results), results)

clean_room(floor, room) ==
    LET new_state == state
    IN IF ~_assert_bounds(new_state, floor, room)
       THEN Raise("clean_room", <<floor, room>>, "ValueError", state)
       \* new_state.infected_coords.popitem((floor, room)): one argument
       ELSE IF 1 # popitem_parameters
       THEN Raise("clean_room", <<floor, room>>, "TypeError", state)
       \* self._apply_update(new_state, "clean_room", {...}): three arguments
       ELSE IF 3 # _apply_update_parameters
       THEN Raise("clean_room", <<floor, room>>, "TypeError", state)
       ELSE Return("clean_room", <<floor, room>>,
                   _apply_update([new_state EXCEPT !.infected_coords = Pop(@, <<floor, room>>)],
                                 "clean_room", [floor |-> floor, room |-> room]), <<>>)

\* Mutant: resetting the sensor on self.state also drops the room's infection entry.
sensor_reset_in_place_cleaning(s, floor, room) ==
    [s EXCEPT !.building.floors[floor].rooms[room].sensor = Sensor_reset(@),
              !.infected_coords = Pop(@, <<floor, room>>)]

\* self.state.building.floors[floor].rooms[room].sensor.reset()
sensor_reset_in_place(s, floor, room) ==
    [s EXCEPT !.building.floors[floor].rooms[room].sensor = Sensor_reset(@)]

reset_sensor(floor, room) ==
    LET new_state == state
        self_state == sensor_reset_in_place(state, floor, room)
    IN IF ~_assert_bounds(new_state, floor, room)
       THEN Raise("reset_sensor", <<floor, room>>, "ValueError", state)
       \* self._apply_update(new_state, "reset_sensor", {...}): three arguments
       ELSE IF 3 # _apply_update_parameters
       THEN Raise("reset_sensor", <<floor, room>>, "TypeError", self_state)
       ELSE Return("reset_sensor", <<floor, room>>,
                   _apply_update(new_state, "reset_sensor", [floor |-> floor, room |-> room]), <<>>)

block_room(floor, room) ==
    LET new_state == state
    IN IF ~_assert_bounds(new_state, floor, room)
       THEN Raise("block_room", <<floor, room>>, "ValueError", state)
       \* self._apply_update(new_state, "block_room", {...}): three arguments
       ELSE IF 3 # _apply_update_parameters
       THEN Raise("block_room", <<floor, room>>, "TypeError", state)
       ELSE Return("block_room", <<floor, room>>,
                   _apply_update([new_state EXCEPT !.building.floors[floor].rooms[room].blocked = TRUE],
                                 "block_room", [floor |-> floor, room |-> room]), <<>>)

unblock_room(floor, room) ==
    LET new_state == state
    IN IF ~_assert_bounds(new_state, floor, room)
       THEN Raise("unblock_room", <<floor, room>>, "ValueError", state)
       \* self._apply_update(new_state, "unblock_room", {}): three arguments
       ELSE IF 3 # _apply_update_parameters
       THEN Raise("unblock_room", <<floor, room>>, "TypeError", state)
       ELSE Return("unblock_room", <<floor, room>>,
                   _apply_update([new_state EXCEPT !.building.floors[floor].rooms[room].blocked = FALSE],
                                 "unblock_room", EmptyDict), <<>>)

reset_simulation ==
    LET new_state == [ZombieSimulationState(
                          from_2d_floor_spec(state.building.floors_count,
                                             state.building.rooms_per_floor), <<>>)
                      EXCEPT !.turn = 0]
    \* self._apply_update(new_state, "reset_simulation"): two arguments
    IN IF 2 # _apply_update_parameters
       THEN Raise("reset_simulation", <<>>, "TypeError", state)
       ELSE Return("reset_simulation", <<>>, new_state, <<>>)

\* step() is called while the turn is below the bound of the engine's mode.
WithinTurns == state.turn < (IF stochastic THEN MaxStochTurn ELSE MaxTurn)

Step == WithinTurns /\ \E action \in ActionCodes : step(action)
CleanRoom == \E c \in ArgCoordinates : clean_room(c[1], c[2])
ResetSensor == \E c \in ArgCoordinates : reset_sensor(c[1], c[2])
BlockRoom == \E c \in ArgCoordinates : block_room(c[1], c[2])
UnblockRoom == \E c \in ArgCoordinates : unblock_room(c[1], c[2])
ResetSimulation == reset_simulation

Next ==
    \/ Step
    \/ CleanRoom
    \/ ResetSensor
    \/ BlockRoom
    \/ UnblockRoom
    \/ ResetSimulation

Spec == Init /\ [][Next]_vars

\* obj.building.floors[0].rooms[0].blocked = not obj.building.floors[0].rooms[0].blocked
changed_by_caller(obj) == [obj EXCEPT !.building.floors[0].rooms[0].blocked = ~@]

\* The caller changes the state object it holds under the name reference; the
\* engine's retained state changes with it exactly if it is the same object.
caller_changes(reference) ==
    /\ reference = "returned" => caller.returned # <<>>
    /\ LET obj == IF reference = "returned" THEN caller.returned[1] ELSE caller.initial_state
           others == caller.shared \ {reference}
           changed == changed_by_caller(obj)
       IN /\ state' = IF reference \in caller.shared THEN changed ELSE state
          /\ caller' = [caller EXCEPT
                  !.initial_state = IF reference = "initial_state" \/
                                        (reference \in caller.shared /\ "initial_state" \in others)
                                     THEN changed ELSE @,
                  !.returned = IF reference = "returned" \/
                                   (reference \in caller.shared /\ "returned" \in others)
                                THEN <<changed>> ELSE @]
    /\ UNCHANGED <<stochastic, pre, ret, call, room_infection_actions>>

CallerChanges == \E reference \in CallerReferences : caller_changes(reference)

AliasNext ==
    \/ Step
    \/ CleanRoom
    \/ ResetSensor
    \/ BlockRoom
    \/ UnblockRoom
    \/ ResetSimulation
    \/ CallerChanges

AliasSpec == AliasInit /\ [][AliasNext]_vars

SpreadNext == Step

SpreadSpec == SpreadInit /\ [][SpreadNext]_vars

\* A deterministic engine on a building of at least two rooms, none blocked,
\* whose infection map has a seed and only valid seeds.
FloodInit ==
    /\ Constructed(FloodFloors, FloodRooms, FloodSeeds, FloodSeeds)
    /\ ~stochastic
    /\ Cardinality(RoomsOf(state.building)) >= 2
    /\ \A c \in RoomsOf(state.building) : ~_room_is_blocked(state, c[1], c[2])
    /\ Keys(state.infected_coords) \subseteq RoomsOf(state.building)
    /\ \E k \in DOMAIN state.infected_coords :
           Get(state.infected_coords[k].attrs, ZOMBIE_COUNT, 0) >= 1

\* The caller calls step(), with its default argument, and nothing else.
FloodStep == state.turn < FloodTurns /\ step(DO_NOTHING)

FloodNext == FloodStep

\* A state in which a call of step() changes the variables: the turn bound
\* allows the call and the last call returned, so that the call either returns
\* a state of the next turn or is the first to raise.
FloodStepEnabled == state.turn < FloodTurns /\ call.outcome = "ok"

\* The caller keeps calling step(): weak fairness of FloodNext, with
\* FloodStepEnabled standing for ENABLED <<FloodNext>>_vars, which it implies.
\* WF_vars(FloodNext) == []<>~ENABLED <<FloodNext>>_vars \/ []<><<FloodNext>>_vars
FloodFairness == []<>~FloodStepEnabled \/ []<><<FloodNext>>_vars

FloodSpec == FloodInit /\ [][FloodNext]_vars /\ FloodFairness

----------------------------------------------------------------------------
(* A Building on its own: state.building is the building, call the last call
   made on it or on one of its rooms and sensors.  There is no engine: state
   is the object the caller holds. *)

\* A call on the building returned, leaving it as new_building.
BuildingCall(op, args, new_building) ==
    /\ state' = [state EXCEPT !.building = new_building]
    /\ pre' = state
    /\ ret' = <<>>
    /\ call' = [op |-> op, args |-> args, outcome |-> "ok"]
    /\ caller' = [caller EXCEPT !.initial_state = state']
    /\ UNCHANGED <<stochastic, room_infection_actions>>

\* building = Building.from_2d_floor_spec(floors_count, rooms_per_floor)
BuildingInit ==
    \E floors_count \in 0..BuildFloors, rooms_per_floor \in 0..BuildRooms :
        /\ Building_validates(from_2d_floor_spec(floors_count, rooms_per_floor))
        /\ state = ZombieSimulationState(from_2d_floor_spec(floors_count, rooms_per_floor), <<>>)
        /\ pre = state
        /\ stochastic = FALSE
        /\ ret = <<>>
        /\ call = [op |-> "from_2d_floor_spec", args |-> <<floors_count, rooms_per_floor>>,
                   outcome |-> "ok"]
        /\ room_infection_actions = <<>>
        /\ caller = [initial_state |-> state, returned |-> <<>>, shared |-> {"initial_state"}]

\* building.update_building_size(new_floors_count, new_rooms_per_floor)
UpdateBuildingSize ==
    \E new_floors_count \in 0..BuildFloors, new_rooms_per_floor \in 0..BuildRooms :
        BuildingCall("update_building_size", <<new_floors_count, new_rooms_per_floor>>,
                     update_building_size(state.building, new_floors_count, new_rooms_per_floor))

\* building.floors[floor].rooms[room].blocked = blocked
RoomBlockedSet ==
    \E c \in RoomsOf(state.building), blocked \in BOOLEAN :
        BuildingCall("blocked", <<c[1], c[2], blocked>>,
                     [state.building EXCEPT !.floors[c[1]].rooms[c[2]].blocked = blocked])

\* building.floors[floor].rooms[room].sensor.trigger()
SensorTrigger ==
    \E c \in RoomsOf(state.building) :
        BuildingCall("trigger", <<c[1], c[2]>>,
                     [state.building EXCEPT !.floors[c[1]].rooms[c[2]].sensor = Sensor_trigger(@)])

\* building.floors[floor].rooms[room].sensor.reset()
SensorReset ==
    \E c \in RoomsOf(state.building) :
        BuildingCall("reset", <<c[1], c[2]>>,
                     [state.building EXCEPT !.floors[c[1]].rooms[c[2]].sensor = Sensor_reset(@)])

BuildingNext ==
    \/ UpdateBuildingSize
    \/ RoomBlockedSet
    \/ SensorTrigger
    \/ SensorReset

BuildingSpec == BuildingInit /\ [][BuildingNext]_vars

----------------------------------------------------------------------------
(* Vocabulary of the properties *)

RoomAt(s, c) == s.building.floors[c[1]].rooms[c[2]]

SensorAt(s, c) == RoomAt(s, c).sensor.status

BlockedAt(s, c) == RoomAt(s, c).blocked

\* The recorded zombie_count of c, 0 when there is none.
CountAt(s, c) ==
    IF c \in Keys(s.infected_coords) /\ ZOMBIE_COUNT \in DOMAIN Attrs(s.infected_coords, c)
    THEN Attrs(s.infected_coords, c)[ZOMBIE_COUNT] ELSE 0

\* The seed rooms of s: the coordinates with a positive count.
SeedSet(s) == {c \in Keys(s.infected_coords) : CountAt(s, c) > 0}

Orthogonal(a, b) ==
    \/ a[1] = b[1] /\ (a[2] = b[2] + 1 \/ a[2] + 1 = b[2])
    \/ a[2] = b[2] /\ (a[1] = b[1] + 1 \/ a[1] + 1 = b[1])

Diagonal(a, b) ==
    /\ (a[1] = b[1] + 1 \/ a[1] + 1 = b[1])
    /\ (a[2] = b[2] + 1 \/ a[2] + 1 = b[2])

\* The eligible neighbours of c: orthogonal, existing (hence in bounds), unblocked.
EligibleNeighbours(s, c) ==
    {e \in RoomsOf(s.building) : Orthogonal(c, e) /\ ~BlockedAt(s, e)}

\* Every seed is a room of the building and is not blocked.
SeedsValid(s) == \A c \in SeedSet(s) : c \in RoomsOf(s.building) /\ ~BlockedAt(s, c)

InBounds(s, c) == c \in RoomsOf(s.building)

StepReturned == call.op = "step" /\ call.outcome = "ok"

\* The deltas the last step recorded for the seed of its k-th segment.
Segment(k) == room_infection_actions[k].actions
SegmentSeed(k) == room_infection_actions[k].seed

\* The indices of the deltas of segment k that target coordinate e.
DeltasTo(k, e) == {j \in DOMAIN Segment(k) : Segment(k)[j].room = e}

\* The last step appended exactly its segments, in order, to the event log.
SegmentsAreLogged ==
    state.infection_events_log = pre.infection_events_log \o Extend(room_infection_actions)

\* The segments are those of the seeds of the pre-step state, one each.
SegmentsAreSeeds ==
    /\ {SegmentSeed(k) : k \in DOMAIN room_infection_actions} = SeedSet(pre)
    /\ Len(room_infection_actions) = Cardinality(SeedSet(pre))

----------------------------------------------------------------------------
(* The properties *)

\* C1: immediately after the engine is constructed, every room whose coordinate
\* has zombie_count > 0 in the infection map has its sensor in alert, and every
\* other room has its sensor in normal.
C1_SensorsSyncedAtConstruction ==
    call.op = "__init__" =>
        \A c \in RoomsOf(state.building) :
            SensorAt(state, c) = IF CountAt(state, c) > 0 THEN "alert" ELSE "normal"

C3_DeterministicSplit ==
    (StepReturned /\ ~stochastic) =>
        /\ SegmentsAreSeeds
        /\ SegmentsAreLogged
        /\ \A k \in DOMAIN room_infection_actions :
            LET c == SegmentSeed(k)
                p == CountAt(pre, c)
                eligible == EligibleNeighbours(pre, c)
                n == Cardinality(eligible)
            IN n >= 1 =>
                /\ \A e \in eligible :
                    /\ Cardinality(DeltasTo(k, e)) = 1
                    /\ \A j \in DeltasTo(k, e) :
                        Segment(k)[j].zombie_count_delta = (IF p \div n >= 1 THEN p \div n ELSE 1)
                /\ \A j \in DOMAIN Segment(k) :
                    Segment(k)[j].zombie_count_delta > 0 => Segment(k)[j].room \in eligible

\* C3 witness: a deterministic step split a power of at least 4 over at least
\* two eligible neighbours (so p // n is neither p nor floored to 1).
C3_Witness ==
    /\ StepReturned /\ ~stochastic
    /\ \E k \in DOMAIN room_infection_actions :
        /\ Cardinality(EligibleNeighbours(pre, SegmentSeed(k))) >= 2
        /\ CountAt(pre, SegmentSeed(k)) >= 2 * Cardinality(EligibleNeighbours(pre, SegmentSeed(k)))

\* C4: a seed at (f, r) hands infection only to orthogonal coordinates that are
\* in bounds, exist and are unblocked: no other coordinate (diagonal, out of
\* bounds) receives a delta, appears in the infection map or gains zombies, and
\* an out-of-bounds neighbour never makes the step fail.
C4_OnlyEligibleOrthogonalReceive ==
    /\ (call.op = "step" /\ call.args[1] = 0 /\ SeedsValid(pre)) => call.outcome = "ok"
    /\ StepReturned =>
        /\ SegmentsAreSeeds
        /\ SegmentsAreLogged
        /\ \A k \in DOMAIN room_infection_actions :
            \A j \in DOMAIN Segment(k) :
                IF j = Len(Segment(k))
                THEN Segment(k)[j].room = SegmentSeed(k) /\ Segment(k)[j].zombie_count_delta <= 0
                ELSE Segment(k)[j].room \in EligibleNeighbours(pre, SegmentSeed(k))
        /\ \A c \in Keys(state.infected_coords) :
            (c \notin Keys(pre.infected_coords) \/ CountAt(state, c) > CountAt(pre, c)) =>
                \E seed \in SeedSet(pre) : c \in EligibleNeighbours(pre, seed)

\* C4 witness: a step returned for a seed that has a diagonal room in the
\* building, fewer than four eligible neighbours, and handed something out.
C4_Witness ==
    /\ StepReturned
    /\ \E k \in DOMAIN room_infection_actions :
        /\ \E d \in RoomsOf(pre.building) : Diagonal(SegmentSeed(k), d) /\ ~BlockedAt(pre, d)
        /\ Cardinality(EligibleNeighbours(pre, SegmentSeed(k))) < 4
        /\ Len(Segment(k)) >= 2

\* C5: whenever step() succeeds, a blocked room receives nothing: it is in the
\* infection map afterwards exactly if it was before, with the same recorded
\* attributes, its sensor is unchanged, and no delta of the step targets it.
C5_BlockedRoomReceivesNothing ==
    StepReturned =>
        \A c \in RoomsOf(pre.building) :
            BlockedAt(pre, c) =>
                /\ (c \in Keys(state.infected_coords)) = (c \in Keys(pre.infected_coords))
                /\ c \in Keys(pre.infected_coords) =>
                    Attrs(state.infected_coords, c) = Attrs(pre.infected_coords, c)
                /\ SensorAt(state, c) = SensorAt(pre, c)
                /\ BlockedAt(state, c)
                /\ \A k \in DOMAIN room_infection_actions : DeltasTo(k, c) = {}

\* C5 witness: a step returned with a blocked room, absent from the map,
\* orthogonally next to a seed that handed zombies to another room.
C5_Witness ==
    /\ StepReturned
    /\ \E k \in DOMAIN room_infection_actions :
        /\ Len(Segment(k)) >= 2
        /\ \E c \in RoomsOf(pre.building) :
            /\ BlockedAt(pre, c)
            /\ Orthogonal(SegmentSeed(k), c)
            /\ c \notin Keys(state.infected_coords)

\* C6 as claimed: in deterministic mode, after a successful step every eligible
\* neighbour of every seed is in the infection map with zombie_count >= 1.
C6_EveryEligibleNeighbourInfected ==
    (StepReturned /\ ~stochastic) =>
        \A c \in SeedSet(pre) : \A e \in EligibleNeighbours(pre, c) :
            e \in Keys(state.infected_coords) /\ CountAt(state, e) >= 1

\* C6 as amended: in deterministic mode, after a successful step every eligible
\* neighbour of every seed is in the infection map, with zombie_count >= 1
\* unless that neighbour is itself a seed whose pre-step count is smaller than
\* the number of its own eligible neighbours.
C6_EligibleNeighbourPresent ==
    (StepReturned /\ ~stochastic) =>
        \A c \in SeedSet(pre) : \A e \in EligibleNeighbours(pre, c) :
            /\ e \in Keys(state.infected_coords)
            /\ \/ CountAt(state, e) >= 1
               \/ /\ e \in SeedSet(pre)
                  /\ CountAt(pre, e) < Cardinality(EligibleNeighbours(pre, e))

\* C6 witness: a deterministic step with two seeds, one an eligible neighbour
\* of the other, the neighbour ending with zombie_count 0.
C6_Witness ==
    /\ StepReturned /\ ~stochastic
    /\ \E c \in SeedSet(pre) : \E e \in EligibleNeighbours(pre, c) :
        e \in SeedSet(pre) /\ CountAt(state, e) = 0

\* The (floor, room) a room command was called with.
CallRoom == <<call.args[1], call.args[2]>>

\* What the callers of the engine observe of a state, apart from one room's
\* blocked flag: turn, infection map, every sensor, the other blocked flags
\* and the event log.
ObservablesBut(s, c) ==
    [turn |-> s.turn,
     infected_coords |-> s.infected_coords,
     sensors |-> [r \in RoomsOf(s.building) |-> SensorAt(s, r)],
     blocked |-> [r \in RoomsOf(s.building) \ {c} |-> BlockedAt(s, r)],
     infection_events_log |-> s.infection_events_log]

\* C7: clean_room(f, r) with in-bounds coordinates removes the key (f, r) from
\* the infection map of the retained and of the returned state, and leaves the
\* sensor of room (f, r) as it was.
C7_CleanRoomRemovesKey ==
    (call.op = "clean_room" /\ InBounds(pre, CallRoom)) =>
        /\ call.outcome = "ok"
        /\ Len(ret) = 1
        /\ CallRoom \notin Keys(ret[1].infected_coords)
        /\ CallRoom \notin Keys(state.infected_coords)
        /\ SensorAt(state, CallRoom) = SensorAt(pre, CallRoom)

\* C8: clean_room(f, r) on an in-bounds coordinate that is not in the infection
\* map completes without error and leaves the infection map unchanged.
C8_CleanRoomIdempotent ==
    (call.op = "clean_room" /\ InBounds(pre, CallRoom)
        /\ CallRoom \notin Keys(pre.infected_coords)) =>
        /\ call.outcome = "ok"
        /\ state.infected_coords = pre.infected_coords

\* C9: reset_sensor(f, r) with in-bounds coordinates sets the sensor of room
\* (f, r) to normal in the returned and in the retained state, whether or not
\* the room holds zombies, and changes no other room's sensor.
C9_ResetSensorSetsNormal ==
    (call.op = "reset_sensor" /\ InBounds(pre, CallRoom)) =>
        /\ call.outcome = "ok"
        /\ Len(ret) = 1
        /\ SensorAt(ret[1], CallRoom) = "normal"
        /\ SensorAt(state, CallRoom) = "normal"
        /\ \A c \in RoomsOf(pre.building) \ {CallRoom} :
            SensorAt(state, c) = SensorAt(pre, c) /\ SensorAt(ret[1], c) = SensorAt(pre, c)

\* C10: block_room(f, r) makes room (f, r) blocked in the retained state, and
\* an unblock_room(f, r) that follows it restores blocked = false with turn,
\* infection map, sensors, the other blocked flags and the event log as they
\* were before the block_room call (pre, in the state the block_room call left).
C10_BlockThenUnblock ==
    [][(call.op = "block_room" /\ InBounds(pre, CallRoom)) =>
          /\ call.outcome = "ok"
          /\ BlockedAt(state, CallRoom)
          /\ (call'.op = "unblock_room" /\ call'.args = call.args) =>
                /\ call'.outcome = "ok"
                /\ ~BlockedAt(state', CallRoom)
                /\ ObservablesBut(state', CallRoom) = ObservablesBut(pre, CallRoom)]_vars

\* The four room commands.
RoomCommands == {"clean_room", "reset_sensor", "block_room", "unblock_room"}

\* The coordinates with an entry in the infection map of s or of t.
KeysOfEither(s, t) == Keys(s.infected_coords) \cup Keys(t.infected_coords)

\* s has the turn, the event log and, outside the rooms of but, the zombie
\* counts of the state the last room command was called on.
FrameOfRoomCommand(s, but) ==
    /\ s.turn = pre.turn
    /\ s.infection_events_log = pre.infection_events_log
    /\ \A c \in KeysOfEither(s, pre) \ but : CountAt(s, c) = CountAt(pre, c)

\* C11: a room command (clean_room, reset_sensor, block_room, unblock_room)
\* runs no propagation: it leaves the turn, the event log and the zombie count
\* of every coordinate other than a cleaned one as they were, in the retained
\* state and in a state it returns; block_room on an infected room keeps that
\* room's recorded zombie_count.
C11_RoomCommandsDoNotPropagate ==
    call.op \in RoomCommands =>
        LET cleaned == IF call.op = "clean_room" THEN {CallRoom} ELSE {}
        IN /\ room_infection_actions = <<>>
           /\ FrameOfRoomCommand(state, cleaned)
           /\ \A k \in DOMAIN ret : FrameOfRoomCommand(ret[k], cleaned)
           /\ (call.op = "block_room" /\ CallRoom \in Keys(pre.infected_coords)) =>
                 /\ CallRoom \in Keys(state.infected_coords)
                 /\ Attrs(state.infected_coords, CallRoom) = Attrs(pre.infected_coords, CallRoom)

\* C11 witness: block_room was called on an infected room of the building
\* after a step that logged deltas, and the room still holds its zombies.
C11_Witness ==
    /\ call.op = "block_room"
    /\ InBounds(pre, CallRoom)
    /\ CountAt(pre, CallRoom) > 0
    /\ CountAt(state, CallRoom) = CountAt(pre, CallRoom)
    /\ pre.turn >= 1
    /\ pre.infection_events_log # <<>>

\* The building of s has the dimensions of that of t, and only unblocked
\* rooms with normal sensors.
FreshBuildingLike(s, t) ==
    /\ s.building.floors_count = t.building.floors_count
    /\ s.building.rooms_per_floor = t.building.rooms_per_floor
    /\ RoomsOf(s.building) = RoomsOf(t.building)
    /\ \A c \in RoomsOf(s.building) : ~BlockedAt(s, c) /\ SensorAt(s, c) = "normal"

\* C12: reset_simulation, from any reachable state and without a seed map,
\* yields a state with turn = 0, a building of the same floors_count and
\* rooms_per_floor whose rooms are all unblocked with normal sensors, and an
\* empty infection map: the pre-reset infection map is not carried over, in
\* the returned state or in the retained one.
C12_ResetSimulationYieldsFreshState ==
    call.op = "reset_simulation" =>
        /\ call.outcome = "ok"
        /\ Len(ret) = 1
        /\ ret[1].turn = 0
        /\ FreshBuildingLike(ret[1], pre)
        /\ ret[1].infected_coords = <<>>
        /\ state.turn = 0
        /\ FreshBuildingLike(state, pre)
        /\ state.infected_coords = <<>>

\* The payload a command is to record for its arguments.
ArgumentsPayload ==
    IF call.op \in RoomCommands
    THEN [floor |-> call.args[1], room |-> call.args[2]]
    ELSE EmptyDict

\* C13: every command (clean_room, reset_sensor, block_room, unblock_room with
\* in-bounds arguments, reset_simulation) returns a state whose last_action is
\* the label of the command and whose last_action_payload holds the call's
\* arguments (floor and room for the four room commands), and the retained
\* state records the same.
C13_CommandsRecordLastAction ==
    ((call.op \in RoomCommands /\ InBounds(pre, CallRoom)) \/ call.op = "reset_simulation") =>
        /\ call.outcome = "ok"
        /\ Len(ret) = 1
        /\ ret[1].last_action = call.op
        /\ ret[1].last_action_payload = ArgumentsPayload
        /\ state.last_action = call.op
        /\ state.last_action_payload = ArgumentsPayload

\* C14: a room command called with a floor outside 0..floors_count-1 or a
\* room outside 0..rooms_per_floor-1 fails with the out-of-bounds error
\* (ValueError), returns nothing and leaves the retained state (building,
\* sensors, infection map, turn, last_action) unchanged.
C14_OutOfBoundsRejected ==
    (call.op \in RoomCommands /\ ~InBounds(pre, CallRoom)) =>
        /\ call.outcome = "ValueError"
        /\ ret = <<>>
        /\ state = pre

\* C14 witness: reset_sensor was called on an existing floor with the first
\* room number past its rooms, in a state with a sensor in alert.
C14_Witness ==
    /\ call.op = "reset_sensor"
    /\ call.outcome = "ValueError"
    /\ call.args[1] \in DOMAIN pre.building.floors
    /\ call.args[2] = pre.building.rooms_per_floor
    /\ \E c \in RoomsOf(state.building) : SensorAt(state, c) = "alert"

HasExactly(s, floors_count, rooms_per_floor) ==
    /\ DOMAIN s.building.floors = 0..(floors_count - 1)
    /\ \A f \in DOMAIN s.building.floors :
        /\ s.building.floors[f].floor_number = f
        /\ DOMAIN s.building.floors[f].rooms = 0..(rooms_per_floor - 1)
        /\ \A r \in DOMAIN s.building.floors[f].rooms :
            s.building.floors[f].rooms[r].room_number = r

\* C16: for floors_count >= 1 and rooms_per_floor >= 1, from_2d_floor_spec
\* yields a building with exactly the floors 0..floors_count-1, each with
\* exactly the rooms 0..rooms_per_floor-1, every sensor normal and every room
\* unblocked.
C16_FloorSpecBuilding ==
    call.op = "from_2d_floor_spec" =>
        /\ HasExactly(state, call.args[1], call.args[2])
        /\ Cardinality(RoomsOf(state.building)) = call.args[1] * call.args[2]
        /\ \A c \in RoomsOf(state.building) :
            SensorAt(state, c) = "normal" /\ ~BlockedAt(state, c)

\* C16 witness: a building of several floors and several rooms per floor, of
\* different numbers, has just been built.
C16_Witness ==
    /\ call.op = "from_2d_floor_spec"
    /\ call.args[1] >= 2
    /\ call.args[2] > call.args[1]
    /\ state.building.floors_count = call.args[1]
    /\ state.building.rooms_per_floor = call.args[2]

\* C20: after update_building_size(nf, nr) with nf, nr >= 1, applied any number
\* of times to a building made by from_2d_floor_spec, the building has exactly
\* the floors 0..nf-1, each with exactly the rooms 0..nr-1, floors_count = nf
\* and rooms_per_floor = nr; a room that existed before and survives keeps its
\* blocked flag and sensor status, and a newly created room is unblocked with a
\* normal sensor.
C20_ResizedBuilding ==
    call.op = "update_building_size" =>
        /\ HasExactly(state, call.args[1], call.args[2])
        /\ state.building.floors_count = call.args[1]
        /\ state.building.rooms_per_floor = call.args[2]
        /\ \A c \in RoomsOf(state.building) :
            IF c \in RoomsOf(pre.building)
            THEN /\ BlockedAt(state, c) = BlockedAt(pre, c)
                 /\ SensorAt(state, c) = SensorAt(pre, c)
            ELSE /\ ~BlockedAt(state, c)
                 /\ SensorAt(state, c) = "normal"

\* C20 witness: a resize added a floor and added rooms to the floors that
\* were there, and a blocked room in alert survived it.
C20_Witness ==
    /\ call.op = "update_building_size"
    /\ state.building.floors_count > pre.building.floors_count
    /\ state.building.rooms_per_floor > pre.building.rooms_per_floor
    /\ \E c \in RoomsOf(pre.building) \cap RoomsOf(state.building) :
        BlockedAt(state, c) /\ SensorAt(state, c) = "alert"
    /\ \E c \in RoomsOf(state.building) \ RoomsOf(pre.building) : c[1] \in DOMAIN pre.building.floors

\* An infection map as Python compares it: a mapping from coordinate to
\* attributes, whatever the insertion order.
AsMapping(infected_coords) ==
    [c \in Keys(infected_coords) |-> Attrs(infected_coords, c)]

\* The infection maps equal to infected_coords as mappings: its items in any order.
Reorderings(infected_coords) ==
    {[i \in DOMAIN infected_coords |-> infected_coords[p[i]]] :
        p \in Permutations(DOMAIN infected_coords)}

\* The states a deterministic step() can return to an engine whose retained
\* state is s.
DeterministicStepResults(s) ==
    LET new_state == [s EXCEPT !.turn = next_turn(@)]
    IN IF ~SpreadAssertsHold(new_state) THEN {}
       ELSE UNION {{_spread_infection(new_state, results) :
                        results \in SpreadResults(new_state, Seeds(new_state, 1), order, FALSE)} :
                   order \in SetOrders}

\* C17: a deterministic step is a function of the input state: an engine whose
\* state equals the pre-step state of the last step (same turn, building,
\* blocked flags and sensors, the same infection map as a coordinate-to-count
\* mapping), whatever the order in which it enumerates seeds and neighbours,
\* returns a state with the same turn, building and infection map (as a
\* mapping) as the last step returned.
C17_DeterministicStepIsFunction ==
    (StepReturned /\ ~stochastic) =>
        \A other \in Reorderings(pre.infected_coords) :
            \A out \in DeterministicStepResults([pre EXCEPT !.infected_coords = other]) :
                /\ out.turn = state.turn
                /\ out.building = state.building
                /\ AsMapping(out.infected_coords) = AsMapping(state.infected_coords)

\* The values of the caller's objects are as they were, but for returned
\* when the operation has just handed a new state back.
HandedKept ==
    /\ caller'.initial_state = caller.initial_state
    /\ \/ caller'.returned = caller.returned
       \/ call'.outcome = "ok" /\ caller'.returned = ret'

\* C18: no state the caller holds is the engine's retained state: a change the
\* caller makes to the state it passed to the constructor, or to a state that
\* step() or a command returned, never changes the retained state, and an
\* engine operation never changes a state handed to the caller before.
C18_NoAliasing ==
    [][/\ CallerChanges => state' = state
       /\ Next => HandedKept]_vars

\* C18 witness: the caller has changed both the state it constructed the
\* engine from and a state step() returned, and reset_sensor has then reset,
\* in the retained state, a sensor that is in alert in the returned state;
\* the retained state has none of the caller's changes.
C18_Witness ==
    /\ call.op = "reset_sensor"
    /\ InBounds(pre, CallRoom)
    /\ caller.returned # <<>>
    /\ BlockedAt(caller.returned[1], <<0, 0>>) # BlockedAt(state, <<0, 0>>)
    /\ BlockedAt(caller.initial_state, <<0, 0>>) # BlockedAt(state, <<0, 0>>)
    /\ SensorAt(caller.returned[1], CallRoom) = "alert"
    /\ SensorAt(state, CallRoom) = "normal"

\* The operations of the engine.
Operations == RoomCommands \cup {"step", "reset_simulation"}

\* C19: after every successful engine operation (step, clean_room,
\* reset_sensor, block_room, unblock_room, reset_simulation) the retained
\* state is equal in value to the state the operation returned.
C19_RetainedEqualsReturned ==
    (call.op \in Operations /\ call.outcome = "ok") =>
        /\ Len(ret) = 1
        /\ state = ret[1]

\* C19 witness: a step returned a state that differs from the pre-step state
\* in turn, infection map, sensors, event log and last_action, and the
\* retained state is that state.
C19_Witness ==
    /\ StepReturned
    /\ Len(ret) = 1
    /\ ret[1].turn = pre.turn + 1
    /\ AsMapping(ret[1].infected_coords) # AsMapping(pre.infected_coords)
    /\ ret[1].building # pre.building
    /\ ret[1].infection_events_log # pre.infection_events_log
    /\ ret[1].last_action = "spread_infection"
    /\ pre.last_action = "START"
    /\ state = ret[1]

\* C21: floors_count > 0 and rooms_per_floor > 0 hold for every reachable
\* Building: from_2d_floor_spec never yields a building for a count <= 0, and
\* update_building_size with a floor or room count <= 0 is rejected with an
\* error and changes nothing.
C21_CountsStayPositive ==
    /\ state.building.floors_count > 0
    /\ state.building.rooms_per_floor > 0
    /\ call.op = "from_2d_floor_spec" => call.args[1] > 0 /\ call.args[2] > 0
    /\ (call.op = "update_building_size" /\ (call.args[1] <= 0 \/ call.args[2] <= 0)) =>
          /\ call.outcome # "ok"
          /\ state.building = pre.building

\* The batch with the deltas at positions i and j exchanged.
Exchanged(infection_actions, i, j) ==
    [infection_actions EXCEPT ![i] = infection_actions[j], ![j] = infection_actions[i]]

\* C22: the result of applying a step's delta batch does not depend on the order
\* in which the deltas are applied: every permutation of the batch yields the same
\* final zombie counts.  Stated for the permutations that exchange two deltas of
\* the batch the step applied to the pre-step state.
C22_BatchOrderIrrelevant ==
    StepReturned =>
        LET infection_actions == Extend(room_infection_actions)
        IN \A i, j \in DOMAIN infection_actions :
               \A c \in RoomsOf(pre.building) :
                   CountAt(ApplyAll(pre, Exchanged(infection_actions, i, j)), c) = CountAt(state, c)

\* The strength the seed of segment k handed out: the sum of the deltas before
\* its last one, which is the delta on the seed itself.
GivenBy(k) ==
    SumSeq([j \in 1..(Len(Segment(k)) - 1) |-> Segment(k)[j].zombie_count_delta])

OwnDeltaOf(k) == Segment(k)[Len(Segment(k))].zombie_count_delta

\* C23 as claimed: in deterministic mode the total strength a seed hands out
\* never exceeds its power, so the delta recorded on the seed itself is always 0.
C23_DeterministicOwnDeltaZero ==
    (StepReturned /\ ~stochastic) =>
        \A k \in DOMAIN room_infection_actions :
            /\ GivenBy(k) <= CountAt(pre, SegmentSeed(k))
            /\ OwnDeltaOf(k) = 0

\* C23 as amended: in deterministic mode a seed with power p and n eligible
\* neighbours hands out n * max(p div n, 1) in total; this exceeds p exactly
\* when p < n, and the delta recorded on the seed itself is then p - n < 0;
\* otherwise it is 0.
C23_DeterministicOwnDelta ==
    (StepReturned /\ ~stochastic) =>
        \A k \in DOMAIN room_infection_actions :
            LET p == CountAt(pre, SegmentSeed(k))
                n == Cardinality(EligibleNeighbours(pre, SegmentSeed(k)))
            IN /\ Segment(k)[Len(Segment(k))].room = SegmentSeed(k)
               /\ GivenBy(k) = n * Max(p \div Max(n, 1), 1)
               /\ GivenBy(k) > p <=> p < n
               /\ OwnDeltaOf(k) = IF p < n THEN p - n ELSE 0

\* C23 witness: a deterministic step in which a seed has fewer zombies than
\* eligible neighbours and records a negative delta on itself.
C23_Witness ==
    /\ StepReturned /\ ~stochastic
    /\ \E k \in DOMAIN room_infection_actions :
        /\ CountAt(pre, SegmentSeed(k)) < Cardinality(EligibleNeighbours(pre, SegmentSeed(k)))
        /\ OwnDeltaOf(k) < 0

C25_InvalidSeedFailsFast ==
    (call.op = "step" /\ call.args = <<0>> /\ ~SeedsValid(pre)) =>
        /\ call.outcome = "AssertionError"
        /\ ret = <<>>
        /\ state = pre

\* C25 witness: a step on a state with two seeds, one valid and one blocked or
\* outside the building, has raised AssertionError.
C25_Witness ==
    /\ call.op = "step" /\ call.outcome = "AssertionError"
    /\ \E c, e \in SeedSet(pre) :
        /\ InBounds(pre, c) /\ ~BlockedAt(pre, c)
        /\ ~InBounds(pre, e) \/ BlockedAt(pre, e)

\* Some delta of infection_actions gives coordinate c a strength > 0.
PositiveDeltaIn(infection_actions, c) ==
    \E j \in DOMAIN infection_actions :
        infection_actions[j].room = c /\ infection_actions[j].zombie_count_delta > 0

\* C26: when a step's delta batch has been applied, every coordinate that
\* received a delta with strength > 0 has its sensor in alert, whatever the
\* sensor was before and whatever the stored count became; every other room
\* keeps the sensor status it had.
C26_PositiveDeltaAlerts ==
    StepReturned =>
        \A c \in RoomsOf(state.building) :
            SensorAt(state, c) = IF PositiveDeltaIn(Extend(room_infection_actions), c)
                                 THEN "alert" ELSE SensorAt(pre, c)

\* C26 witness: a room that an earlier step had infected and whose sensor was
\* back to normal received a positive delta and is in alert again although its
\* stored count is what it was before the step.
C26_Witness ==
    /\ StepReturned
    /\ \E c \in SeedSet(pre) :
        /\ PositiveDeltaIn(pre.infection_events_log, c)
        /\ SensorAt(pre, c) = "normal"
        /\ PositiveDeltaIn(Extend(room_infection_actions), c)
        /\ CountAt(state, c) = CountAt(pre, c)
        /\ SensorAt(state, c) = "alert"

\* The indices of the deltas of the last step's batch that target coordinate c.
BatchDeltasTo(c) ==
    {j \in DOMAIN Extend(room_infection_actions) : Extend(room_infection_actions)[j].room = c}

\* C27: every zombie_count stored in the infection map is >= 0 in every
\* reachable state; after a step every coordinate that received a delta has an
\* entry with a zombie_count, and a coordinate that received a single delta
\* holds max(0, count + strength), its count before the step being 0 when it
\* had no entry.
C27_CountsNonNegative ==
    /\ \A k \in DOMAIN state.infected_coords :
           Get(state.infected_coords[k].attrs, ZOMBIE_COUNT, 0) >= 0
    /\ StepReturned =>
          \A c \in RoomsOf(state.building) :
              /\ BatchDeltasTo(c) # {} =>
                    /\ c \in Keys(state.infected_coords)
                    /\ ZOMBIE_COUNT \in DOMAIN Attrs(state.infected_coords, c)
              /\ \A j \in BatchDeltasTo(c) :
                    BatchDeltasTo(c) = {j} =>
                        CountAt(state, c) =
                            Max(0, CountAt(pre, c) + Extend(room_infection_actions)[j].zombie_count_delta)

\* C27 witness: a step in which the only delta on a seed would have taken its
\* count below 0 and left it at 0, and which created the entry of a room that
\* had none.
C27_Witness ==
    /\ StepReturned
    /\ \E c \in SeedSet(pre) : \E j \in BatchDeltasTo(c) :
        /\ BatchDeltasTo(c) = {j}
        /\ CountAt(pre, c) + Extend(room_infection_actions)[j].zombie_count_delta < 0
        /\ CountAt(state, c) = 0
    /\ \E e \in Keys(state.infected_coords) \ Keys(pre.infected_coords) : CountAt(state, e) > 0

\* C28: all deltas of one step are computed from the counts and blocked flags
\* as they were at the start of the step: the rooms that spread are exactly the
\* seeds of the pre-step state, each spreads to its pre-step eligible
\* neighbours only, with a strength derived from its pre-step count, and the
\* delta on the seed itself is min(0, pre-step count - strength handed out).
C28_DeltasFromPreStepState ==
    StepReturned =>
        /\ SegmentsAreSeeds
        /\ \A k \in DOMAIN room_infection_actions :
            LET c == SegmentSeed(k)
                p == CountAt(pre, c)
                n == Cardinality(EligibleNeighbours(pre, c))
                last == Len(Segment(k))
            IN /\ Segment(k)[last].room = c
               /\ OwnDeltaOf(k) = Min(0, p - GivenBy(k))
               /\ \A j \in 1..(last - 1) :
                     /\ Segment(k)[j].room \in EligibleNeighbours(pre, c)
                     /\ Segment(k)[j].zombie_count_delta \in
                          (IF stochastic THEN 0..p ELSE {Max(p \div Max(n, 1), 1)})

\* C28 witness: a deterministic step with two seeds of which the second received
\* a delta from the first, and a room infected by that step that was no seed
\* before it.
C28_Witness ==
    /\ StepReturned /\ ~stochastic
    /\ Len(room_infection_actions) = 2
    /\ PositiveDeltaIn(Segment(1), SegmentSeed(2))
    /\ \E e \in SeedSet(state) \ SeedSet(pre) : PositiveDeltaIn(Segment(1), e)

\* The number of deltas the last step recorded, over all its seeds.
BatchSize == Len(Extend(room_infection_actions))

\* C29 as claimed: each successful step appends exactly one entry, its whole
\* batch, to infection_events_log, so a log that was empty at construction has
\* as many entries as steps were taken.
C29_OneEntryPerStep ==
    StepReturned =>
        /\ Len(state.infection_events_log) = Len(pre.infection_events_log) + 1
        /\ Len(caller.initial_state.infection_events_log) = 0 =>
              Len(state.infection_events_log) = state.turn - caller.initial_state.turn

\* C29 as amended: each successful step appends the deltas of its batch to
\* infection_events_log one entry per delta, in batch order, after the entries
\* the log held: the log grows by the number of deltas of the step, and every
\* new entry is the single delta at its position in the batch.
C29_OneEntryPerDelta ==
    StepReturned =>
        /\ Len(state.infection_events_log) = Len(pre.infection_events_log) + BatchSize
        /\ \A j \in 1..Len(pre.infection_events_log) :
               state.infection_events_log[j] = pre.infection_events_log[j]
        /\ \A j \in 1..BatchSize :
               state.infection_events_log[Len(pre.infection_events_log) + j]
                   = Extend(room_infection_actions)[j]

\* C29 witness: a second successful step has appended more than one entry to a
\* log that already held the entries of the first.
C29_Witness ==
    /\ StepReturned
    /\ Len(pre.infection_events_log) > 1
    /\ BatchSize > 1
    /\ Len(state.infection_events_log) = Len(pre.infection_events_log) + BatchSize

\* infection_events_log is log_before followed by zero or more entries.
IsPrefix(log_before, infection_events_log) ==
    /\ Len(log_before) <= Len(infection_events_log)
    /\ \A j \in 1..Len(log_before) : infection_events_log[j] = log_before[j]

SegmentsOf(c) == {k \in DOMAIN room_infection_actions : SegmentSeed(k) = c}

\* C31 as claimed: a seed that has no eligible neighbour, and an infection-map
\* entry whose zombie_count is 0 or missing, produce no delta records at all in
\* a step, and their own count is unchanged.
C31_NoRecordsWithoutSpread ==
    StepReturned =>
        \A c \in Keys(pre.infected_coords) :
            (CountAt(pre, c) = 0 \/ EligibleNeighbours(pre, c) = {}) =>
                /\ SegmentsOf(c) = {}
                /\ CountAt(state, c) = CountAt(pre, c) \/ CountAt(pre, c) = 0

\* C31 as amended: an infection-map entry whose zombie_count is 0 or missing
\* produces no delta record in a step; a seed that has no eligible neighbour
\* produces exactly one, a delta of 0 on itself, so no neighbour receives
\* anything from it and its count and its sensor are unchanged.
C31_ZeroDeltaWithoutNeighbours ==
    StepReturned =>
        \A c \in Keys(pre.infected_coords) :
            /\ CountAt(pre, c) = 0 => SegmentsOf(c) = {}
            /\ (CountAt(pre, c) > 0 /\ EligibleNeighbours(pre, c) = {}) =>
                  /\ \E k \in SegmentsOf(c) :
                        /\ SegmentsOf(c) = {k}
                        /\ Len(Segment(k)) = 1
                        /\ Segment(k)[1] = InfectionAction(c[1], c[2], 0)
                  /\ CountAt(state, c) = CountAt(pre, c)
                  /\ SensorAt(state, c) = SensorAt(pre, c)

\* C31 witness: a step on a map holding a seed without eligible neighbour, which
\* recorded a delta of 0 on itself, and an entry of count 0, which recorded
\* nothing.
C31_Witness ==
    /\ StepReturned
    /\ \E c, e \in Keys(pre.infected_coords) :
        /\ CountAt(pre, c) > 0 /\ EligibleNeighbours(pre, c) = {}
        /\ \E k \in SegmentsOf(c) : Segment(k) = <<InfectionAction(c[1], c[2], 0)>>
        /\ CountAt(pre, e) = 0 /\ SegmentsOf(e) = {}

\* C32: in stochastic mode each eligible neighbour of a seed with power p
\* receives either no delta or one delta with strength in 0..p, nothing else
\* receives a delta from the seed, and the delta recorded on the seed is
\* min(0, p - total strength given), negative only when the total exceeds p; a
\* room whose only deltas have strength 0 gets an entry of count 0 if it had
\* none and keeps its sensor status.
C32_StochasticSpread ==
    (StepReturned /\ stochastic) =>
        /\ \A k \in DOMAIN room_infection_actions :
            LET c == SegmentSeed(k)
                p == CountAt(pre, c)
                last == Len(Segment(k))
            IN /\ \A j \in 1..(last - 1) :
                     /\ Segment(k)[j].room \in EligibleNeighbours(pre, c)
                     /\ Segment(k)[j].zombie_count_delta \in 0..p
                     /\ DeltasTo(k, Segment(k)[j].room) = {j}
               /\ Segment(k)[last].room = c
               /\ OwnDeltaOf(k) = Min(0, p - GivenBy(k))
               /\ OwnDeltaOf(k) < 0 <=> GivenBy(k) > p
        /\ \A e \in RoomsOf(state.building) :
               (BatchDeltasTo(e) # {} /\ ~PositiveDeltaIn(Extend(room_infection_actions), e)
                    /\ e \notin Keys(pre.infected_coords)) =>
                   /\ e \in Keys(state.infected_coords)
                   /\ Attrs(state.infected_coords, e) = [zombie_count |-> 0]
                   /\ SensorAt(state, e) = SensorAt(pre, e)

\* C32 witness: a stochastic step in which one neighbour of the seed received a
\* delta of strength 0 that created its entry without alerting its sensor,
\* another received the full power of the seed, and the total given exceeded
\* the power, so that the seed recorded a negative delta on itself.
C32_Witness ==
    /\ StepReturned /\ stochastic
    /\ \E k \in DOMAIN room_infection_actions :
        /\ \E j \in 1..(Len(Segment(k)) - 1) :
              /\ Segment(k)[j].zombie_count_delta = 0
              /\ Segment(k)[j].room \notin Keys(pre.infected_coords)
              /\ Segment(k)[j].room \in Keys(state.infected_coords)
              /\ SensorAt(state, Segment(k)[j].room) = "normal"
        /\ \E j \in 1..(Len(Segment(k)) - 1) :
              Segment(k)[j].zombie_count_delta = CountAt(pre, SegmentSeed(k))
        /\ GivenBy(k) > CountAt(pre, SegmentSeed(k))
        /\ OwnDeltaOf(k) < 0

\* C33: whenever an engine operation (step, clean_room, reset_sensor,
\* block_room, unblock_room, reset_simulation) ends with an error, the retained
\* state is exactly what it was before the call.
C33_FailureLeavesStateUnchanged ==
    (call.op \in Operations /\ call.outcome # "ok") => state = pre

\* The number of orthogonal grid steps between two coordinates.
Manhattan(a, b) == Abs(a[1] - b[1]) + Abs(a[2] - b[2])

\* The number of successful step() calls made so far.
StepsTaken == state.turn - caller.initial_state.turn

\* C34: infection travels at most one orthogonal grid step per turn: after k
\* successful step() calls every coordinate present in the infection map is
\* within Manhattan distance k of some coordinate of the initial infection map.
C34_OneGridStepPerTurn ==
    \A c \in Keys(state.infected_coords) :
        \E origin \in Keys(caller.initial_state.infected_coords) :
            Manhattan(c, origin) <= StepsTaken

\* C34 witness: after two steps a room at distance 2 from every initial
\* coordinate is in the infection map and a room at distance 3 is not.
C34_Witness ==
    /\ StepReturned /\ StepsTaken = 2
    /\ \E c \in Keys(state.infected_coords) :
           \A origin \in Keys(caller.initial_state.infected_coords) : Manhattan(c, origin) = 2
    /\ \E far \in RoomsOf(state.building) \ Keys(state.infected_coords) :
           \A origin \in Keys(caller.initial_state.infected_coords) : Manhattan(far, origin) = 3

\* Every room of the building is in the infection map and has its sensor in alert.
Flooded ==
    \A c \in RoomsOf(state.building) :
        c \in Keys(state.infected_coords) /\ SensorAt(state, c) = "alert"

TotalZombies(s) ==
    SumSeq([k \in DOMAIN s.infected_coords |-> Get(s.infected_coords[k].attrs, ZOMBIE_COUNT, 0)])

\* C36: propagation never destroys zombies net: in both modes the sum of
\* zombie_count over the infection map after a successful step is >= the sum
\* before it, and in deterministic mode it is strictly greater whenever some
\* seed has at least one eligible neighbour.
C36_ZombiesNeverDecrease ==
    StepReturned =>
        /\ TotalZombies(state) >= TotalZombies(pre)
        /\ (~stochastic /\ \E c \in SeedSet(pre) : EligibleNeighbours(pre, c) # {}) =>
              TotalZombies(state) > TotalZombies(pre)

\* C36 witness: a step in which a seed recorded a negative delta on itself and
\* ended with fewer zombies than it had, while the sum over the map grew.
C36_Witness ==
    /\ StepReturned
    /\ \E k \in DOMAIN room_infection_actions :
        /\ OwnDeltaOf(k) < 0
        /\ CountAt(state, SegmentSeed(k)) < CountAt(pre, SegmentSeed(k))
    /\ TotalZombies(state) > TotalZombies(pre)

\* C37: step() never removes a coordinate from the infection map: after a
\* successful step every key held before is still a key, in its place, even
\* when its count was clamped to 0; reset_sensor, block_room and unblock_room
\* remove no key either, so that only clean_room and reset_simulation can.
C37_StepKeepsKeys ==
    /\ StepReturned =>
          /\ Len(state.infected_coords) >= Len(pre.infected_coords)
          /\ \A k \in DOMAIN pre.infected_coords :
                 state.infected_coords[k].room = pre.infected_coords[k].room
    /\ call.op \in {"reset_sensor", "block_room", "unblock_room"} =>
          Keys(pre.infected_coords) \subseteq Keys(state.infected_coords)

\* C37 witness: a step left a seed with a count of 0 and its key in the map.
C37_Witness ==
    /\ StepReturned
    /\ \E c \in SeedSet(pre) :
        /\ CountAt(state, c) = 0
        /\ c \in Keys(state.infected_coords)
        /\ Attrs(state.infected_coords, c) = [zombie_count |-> 0]

\* The entries the last operation appended to the event log.
Appended ==
    SubSeq(state.infection_events_log,
           Len(pre.infection_events_log) + 1, Len(state.infection_events_log))

\* The infection map obtained from infected_coords by replaying the delta
\* records in order: a missing entry is created at 0, and each count becomes
\* max(0, count + strength).
RECURSIVE Replay(_, _)
Replay(infected_coords, records) ==
    IF records = <<>> THEN infected_coords
    ELSE LET room == Head(records).room
             with_entry == IF room \in Keys(infected_coords) THEN infected_coords
                           ELSE Append(infected_coords,
                                       [room |-> room, attrs |-> [zombie_count |-> 0]])
             k == CHOOSE i \in DOMAIN with_entry : with_entry[i].room = room
             count == IF ZOMBIE_COUNT \in DOMAIN with_entry[k].attrs
                      THEN with_entry[k].attrs[ZOMBIE_COUNT] ELSE 0
             sum == count + Head(records).zombie_count_delta
         IN Replay([with_entry EXCEPT ![k].attrs = [zombie_count |-> IF sum < 0 THEN 0 ELSE sum]],
                   Tail(records))

\* C38: the event log explains the infection map: replaying, in order, the
\* delta records a step appended to infection_events_log onto the pre-step
\* infection map yields exactly the post-step infection map.
C38_LogExplainsMap ==
    StepReturned => Replay(pre.infected_coords, Appended) = state.infected_coords

\* C38 witness: a step on a state with a non-empty log appended records that
\* created an entry and records whose sum would have taken a count below 0.
C38_Witness ==
    /\ StepReturned
    /\ Len(pre.infection_events_log) > 0
    /\ Len(Appended) > 1
    /\ Keys(state.infected_coords) # Keys(pre.infected_coords)
    /\ \E c \in SeedSet(pre) :
           CountAt(pre, c)
             + SumSeq([j \in DOMAIN Appended |->
                         IF Appended[j].room = c THEN Appended[j].zombie_count_delta ELSE 0]) < 0

\* C39: step() changes only turn, infection counts, sensors (normal to alert
\* only), the event log and the record of the last action: after a call of
\* step, returned or not, floors_count and rooms_per_floor are what they were,
\* the floors and rooms are the same, every room has its blocked flag and its
\* room number, and every sensor that was in alert still is.
C39_StepFrame ==
    call.op = "step" =>
        /\ state.building.floors_count = pre.building.floors_count
        /\ state.building.rooms_per_floor = pre.building.rooms_per_floor
        /\ DOMAIN state.building.floors = DOMAIN pre.building.floors
        /\ \A f \in DOMAIN pre.building.floors :
              /\ state.building.floors[f].floor_number = pre.building.floors[f].floor_number
              /\ DOMAIN state.building.floors[f].rooms = DOMAIN pre.building.floors[f].rooms
        /\ \A c \in RoomsOf(pre.building) :
              /\ BlockedAt(state, c) = BlockedAt(pre, c)
              /\ RoomAt(state, c).room_number = RoomAt(pre, c).room_number
              /\ SensorAt(pre, c) = "alert" => SensorAt(state, c) = "alert"

\* C39 witness: a returned step next to a blocked room changed counts and
\* sensors, and gave a new delta to a room whose sensor was in alert already.
C39_Witness ==
    /\ StepReturned
    /\ state.infected_coords # pre.infected_coords
    /\ \E c \in SeedSet(pre) : \E b \in RoomsOf(pre.building) :
           Orthogonal(c, b) /\ BlockedAt(pre, b) /\ BlockedAt(state, b)
    /\ \E c \in RoomsOf(pre.building) :
           /\ SensorAt(pre, c) = "alert"
           /\ PositiveDeltaIn(Extend(room_infection_actions), c)
           /\ SensorAt(state, c) = "alert"

====
